---- MODULE Spec2Model ----
(***************************************************************************)
(* Writing agent: the bounded agent/tools graph of backend/agent.py, the   *)
(* word-by-word generators built on it (generate_text, edit_text,          *)
(* improve_text) and the SSE framing of backend/main.py.                   *)
(*                                                                         *)
(* Seven specifications share the variables:                               *)
(*   LoopSpec  the compiled graph run on an arbitrary initial state        *)
(*             (iterations = 0, any max_iterations);                       *)
(*   Spec      one HTTP request: create_sse_stream pulling the generator   *)
(*             of the request's action, which drives the graph;            *)
(*   SseSpec   create_sse_stream pulling an arbitrary fragment generator;  *)
(*   PairSpec  two HTTP requests served by the one WritingAgent, the event *)
(*             loop switching between them at their awaits;                *)
(*   ToolSpec  the three tools called directly on bounded texts;           *)
(*   StreamSpec create_sse_stream over a request's or an arbitrary         *)
(*             generator (the steps of Spec and of SseSpec together);      *)
(*   StudioSpec the graph of backend/studio_graph.py run beside the graph  *)
(*             of backend/agent.py on the same state and the same replies. *)
(***************************************************************************)
EXTENDS Naturals, Sequences, FiniteSets, TLC

VARIABLES
    llm,            \* WritingAgent.llm is set (TRUE) or None (FALSE)
    graph,          \* WritingAgent.graph is compiled (TRUE) or None (FALSE)
    cancelled,      \* the request's task was cancelled (client disconnect)
    messages,       \* WritingState.messages
    content,        \* WritingState.content
    context,        \* WritingState.context: the set of keys with a truthy value
    action,         \* WritingState.action
    iterations,     \* WritingState.iterations
    max_iterations, \* WritingState.max_iterations
    node,           \* the node the graph runs next: "agent", "tools" or "end"
    outcomes,       \* history: the kind of reply of each agent_node execution
    tool_runs,      \* history: the number of ToolNode executions
    streamed,       \* history: per agent_node execution, the content then split
    gen_pc,         \* position of the text generator (generate_text & co.)
    words,          \* the words the generator has still to yield
    pending,        \* what the generator handed to create_sse_stream's async for
    sse_pc,         \* position of create_sse_stream
    events,         \* the SSE events create_sse_stream has yielded
    script,         \* SseSpec only: what the arbitrary generator will still do
    parked,         \* PairSpec only: the locals of the request that is not running
    tool_call,      \* ToolSpec only: the tool invocation (name and arguments)
    tool_result,    \* ToolSpec only: what the tool returned
    studio          \* StudioSpec only: the run of studio_graph.py's graph

state_vars  == <<messages, content, context, action, iterations, max_iterations>>
loop_vars   == <<node, outcomes, tool_runs>>
stream_vars == <<streamed, gen_pc, words, pending, sse_pc, events, script>>
tool_vars   == <<tool_call, tool_result>>
vars == <<llm, graph, cancelled, parked, studio, tool_vars, state_vars, loop_vars, stream_vars>>

(***************************************************************************)
(* Bounds and input domains.                                               *)
(***************************************************************************)
MaxN == 3           \* max_iterations ranges over 0..MaxN in LoopSpec
MaxFragments == 3   \* fragments an arbitrary generator yields (SseSpec)

\* A text is a sequence of characters; " " is the only whitespace character.
Space == " "
EmptyText == <<>>
\* Contents the model backend may return: empty, whitespace only, one word,
\* two words.
GatewayTexts == { EmptyText, <<Space>>, <<"a">>, <<"a", Space, "b">> }
SubjectTexts == { EmptyText, <<"s">> }
\* Subjects carrying the keywords the Studio fallback looks for.
KeywordTexts == { <<"History">>, <<"new", Space, "Technology">>, <<"describe", Space, "art">> }
KnownActions == {"generate", "edit", "improve"}
Actions == KnownActions \cup {"summarize"}
ContextKeys == {"style", "length", "focus", "aspect"}
Contexts == { {}, {"style"}, {"focus", "aspect"} }
ToolNames == {"analyze_text_structure", "suggest_improvements", "extract_key_themes"}

RECURSIVE SeqsUpTo(_, _)
SeqsUpTo(S, n) ==
    IF n = 0 THEN { <<>> }
    ELSE LET shorter == SeqsUpTo(S, n - 1)
         IN shorter \cup { Append(s, x) : s \in shorter, x \in S }

\* The tool calls one assistant message may carry: none, one (a registered
\* tool or an unknown name), or two in either order.
Call(n) == [name |-> n]
ToolCallLists ==
    { <<>>,
      <<Call("analyze_text_structure")>>,
      <<Call("no_such_tool")>>,
      <<Call("analyze_text_structure"), Call("no_such_tool")>>,
      <<Call("no_such_tool"), Call("extract_key_themes")>> }

\* What one call of the model backend does: it returns an AIMessage with a
\* content and a (possibly empty) list of tool calls, or it raises.
GatewayOutcomes ==
    [kind : {"reply"}, content : GatewayTexts, tool_calls : ToolCallLists]
    \cup { [kind |-> "raise", content |-> EmptyText, tool_calls |-> <<>>] }

Last(s) == s[Len(s)]

(***************************************************************************)
(* Messages.                                                               *)
(***************************************************************************)
Msg(role, text, calls) == [role |-> role, content |-> text, tool_calls |-> calls]

SystemPrompt(a) ==
    IF a = "edit" THEN <<"SystemEdit">>
    ELSE IF a = "improve" THEN <<"SystemImprove">>
    ELSE <<"SystemGenerate">>

UserMessage(a, c, ctx) ==
    IF a = "generate"
    THEN <<"PleaseGenerate", Space>> \o c
         \o (IF "style" \in ctx THEN <<Space, "Style">> ELSE <<>>)
         \o (IF "length" \in ctx THEN <<Space, "Length">> ELSE <<>>)
    ELSE IF a = "edit"
    THEN <<"PleaseEdit", Space>> \o c
         \o (IF "focus" \in ctx THEN <<Space, "Focus">> ELSE <<>>)
    ELSE <<"PleaseImprove", Space>> \o c
         \o (IF "aspect" \in ctx THEN <<Space, "Aspect">> ELSE <<>>)

\* A mock branch that builds an empty reply.
MockResponse_Empty(a) == <<>>

MockResponse(a) ==
    IF a = "generate" THEN <<"MockGenerate", Space, "text">>
    ELSE IF a = "improve" THEN <<"MockImprove", Space, "text">>
    ELSE <<"MockResponseFor", Space, a>>

AgentErrorText == <<"I", Space, "encountered", Space, "error">>

SeedMessages(a, c, ctx) ==
    << Msg("system", SystemPrompt(a), <<>>), Msg("user", UserMessage(a, c, ctx), <<>>) >>

(***************************************************************************)
(* Faulty variants, used to show that the properties below depend on the   *)
(* definitions they are checked against.                                   *)
(***************************************************************************)
\* A conditional edge whose "continue" key names a node that does not exist.
Route_ContinueToNowhere(decision) == IF decision = "continue" THEN "tool" ELSE "end"

\* agent_node whose except clause forgets to count the visit.
agent_node_ErrorNotCounted(msgs, its, o) ==
    LET convo == IF msgs = <<>> THEN SeedMessages(action, content, context) ELSE msgs
    IN IF llm /\ o.kind = "raise"
       THEN [messages |-> Append(convo, Msg("assistant", AgentErrorText, <<>>)),
             iterations |-> its]
       ELSE [messages |-> Append(convo,
                                 IF llm THEN Msg("assistant", o.content, o.tool_calls)
                                 ELSE Msg("assistant", MockResponse(action), <<>>)),
             iterations |-> its + 1]

\* agent_node whose except clause returns the transcript without the error
\* entry.
agent_node_ErrorDropped(msgs, its, o) ==
    LET convo == IF msgs = <<>> THEN SeedMessages(action, content, context) ELSE msgs
    IN IF llm /\ o.kind = "raise"
       THEN [messages |-> convo, iterations |-> its + 1]
       ELSE [messages |-> Append(convo,
                                 IF llm THEN Msg("assistant", o.content, o.tool_calls)
                                 ELSE Msg("assistant", MockResponse(action), <<>>)),
             iterations |-> its + 1]

\* A mock branch that echoes the requested style into its reply.
agent_node_MockUsesContext(msgs, its, o) ==
    LET convo == IF msgs = <<>> THEN SeedMessages(action, content, context) ELSE msgs
        reply ==
            IF llm
            THEN IF o.kind = "raise"
                 THEN Msg("assistant", AgentErrorText, <<>>)
                 ELSE Msg("assistant", o.content, o.tool_calls)
            ELSE Msg("assistant",
                     MockResponse(action)
                     \o (IF "style" \in context THEN <<Space, "Style">> ELSE <<>>),
                     <<>>)
    IN [messages |-> Append(convo, reply), iterations |-> its + 1]

\* hasattr(message, 'tool_calls') without the truthiness test.
HasToolCalls_AttributeOnly(m) == m.role = "assistant"

\* should_continue that looks at the tool calls before the bound.
should_continue_ToolsFirst(msgs, its, maxits) ==
    IF msgs # <<>> /\ Len(Last(msgs).tool_calls) > 0 /\ its <= maxits THEN "continue"
    ELSE "end"

\* should_continue with > in place of >=.
should_continue_OffByOne(msgs, its, maxits) ==
    IF its > maxits THEN "end"
    ELSE IF msgs # <<>> /\ Len(Last(msgs).tool_calls) > 0 THEN "continue"
    ELSE "end"

\* agent_node whose error entry still asks for a tool.
agent_node_ErrorKeepsToolCalls(msgs, its, o) ==
    LET convo == IF msgs = <<>> THEN SeedMessages(action, content, context) ELSE msgs
        reply ==
            IF llm
            THEN IF o.kind = "raise"
                 THEN Msg("assistant", AgentErrorText, <<Call("analyze_text_structure")>>)
                 ELSE Msg("assistant", o.content, o.tool_calls)
            ELSE Msg("assistant", MockResponse(action), <<>>)
    IN [messages |-> Append(convo, reply), iterations |-> its + 1]

(***************************************************************************)
(* agent_node: the state update one execution returns.                     *)
(***************************************************************************)
agent_node(msgs, its, o) ==
    LET convo == IF msgs = <<>> THEN SeedMessages(action, content, context) ELSE msgs
        reply ==
            IF llm
            THEN IF o.kind = "raise"
                 THEN Msg("assistant", AgentErrorText, <<>>)
                 ELSE Msg("assistant", o.content, o.tool_calls)
            ELSE Msg("assistant", MockResponse(action), <<>>)
    IN [messages |-> Append(convo, reply), iterations |-> its + 1]

HasToolCalls(m) == m.role = "assistant" /\ Len(m.tool_calls) > 0

should_continue(msgs, its, maxits) ==
    IF its >= maxits THEN "end"
    ELSE IF msgs # <<>> /\ HasToolCalls(Last(msgs)) THEN "continue"
    ELSE "end"

\* add_conditional_edges: "continue" leads to the tools node, "end" to END.
Route(decision) == IF decision = "continue" THEN "tools" ELSE "end"

(***************************************************************************)
(* ToolNode(tools): one ToolMessage per tool call of the last message, in  *)
(* order. WritingState.messages declares no reducer, so the update written *)
(* by a node replaces the channel's value.                                 *)
(***************************************************************************)
ToolResult(call) ==
    IF call.name \in ToolNames THEN <<"result", Space, call.name>>
    ELSE <<"Error", Space, call.name, Space, "invalid">>

ToolNode(msgs) ==
    LET calls == Last(msgs).tool_calls
    IN [i \in 1..Len(calls) |-> Msg("tool", ToolResult(calls[i]), <<>>)]

WriteMessages(old, update) == update

(***************************************************************************)
(* _generate_mock_response (studio_graph.py): the Studio graph's fallback. *)
(* A keyword occurs in a text when one of its characters is the keyword;   *)
(* Lower is str.lower on the characters that have an upper-case form here. *)
(***************************************************************************)
Lower(ch) ==
    IF ch = "History" THEN "history"
    ELSE IF ch = "Technology" THEN "technology"
    ELSE ch

LowerText(t) == [i \in 1..Len(t) |-> Lower(t[i])]

Contains(t, kw) == \E i \in 1..Len(t) : t[i] = kw

generate_mock_response(a, c, ctx) ==
    LET style == IF "style" \in ctx THEN "given" ELSE "general"
        length == IF "length" \in ctx THEN "given" ELSE "medium"
        low == LowerText(c)
    IN IF a = "generate"
       THEN IF Contains(low, "history") THEN <<"StudioHistory", Space, "text">>
            ELSE IF Contains(low, "technology") THEN <<"StudioTechnology", Space, "text">>
            ELSE <<"StudioGeneric", Space, "text">>
       ELSE IF a = "edit" THEN <<"StudioEditorial", Space, "Suggestions">>
       ELSE IF Contains(low, "art") /\ Contains(low, "describe")
            THEN <<"StudioArt", Space, "text">>
            ELSE IF Contains(low, "technology")
                 THEN <<"StudioImprovedTechnology", Space, "text">>
                 ELSE <<"StudioImprovedGeneric", Space, "text">>

(***************************************************************************)
(* One superstep of the compiled graph.                                    *)
(***************************************************************************)
OutcomeKind(o) ==
    IF ~llm THEN "mock"
    ELSE IF o.kind = "raise" THEN "raise"
    ELSE IF Len(o.tool_calls) > 0 THEN "tool_calls" ELSE "content"

\* A visit that calls the backend a second time when the first call raised
\* (the second call raises as well).
AgentStep_RetriesFailure(o) ==
    /\ node = "agent"
    /\ llm \/ o = [kind |-> "reply", content |-> EmptyText, tool_calls |-> <<>>]
    /\ LET upd == agent_node(messages, iterations, o)
       IN /\ messages' = WriteMessages(messages, upd.messages)
          /\ iterations' = upd.iterations
          /\ node' = Route(should_continue(upd.messages, upd.iterations, max_iterations))
    /\ outcomes' = IF OutcomeKind(o) = "raise"
                   THEN outcomes \o <<"raise", "raise">>
                   ELSE Append(outcomes, OutcomeKind(o))
    /\ UNCHANGED <<llm, graph, cancelled, parked, tool_vars, content, context, action, max_iterations, tool_runs>>

\* A tools node that counts as an iteration.
ToolsStep_CountsIteration ==
    /\ node = "tools"
    /\ messages' = WriteMessages(messages, ToolNode(messages))
    /\ node' = "agent"
    /\ tool_runs' = tool_runs + 1
    /\ iterations' = iterations + 1
    /\ UNCHANGED <<llm, graph, cancelled, parked, tool_vars, content, context, action, max_iterations, outcomes>>

\* A tools node whose outgoing edge leads to END instead of the agent node.
ToolsStep_ThenEnd ==
    /\ node = "tools"
    /\ messages' = WriteMessages(messages, ToolNode(messages))
    /\ node' = "end"
    /\ tool_runs' = tool_runs + 1
    /\ UNCHANGED <<llm, graph, cancelled, parked, tool_vars, content, context, action, iterations, max_iterations, outcomes>>

AgentStep(o) ==
    /\ node = "agent"
    /\ llm \/ o = [kind |-> "reply", content |-> EmptyText, tool_calls |-> <<>>]
    /\ LET upd == agent_node(messages, iterations, o)
       IN /\ messages' = WriteMessages(messages, upd.messages)
          /\ iterations' = upd.iterations
          /\ node' = Route(should_continue(upd.messages, upd.iterations, max_iterations))
    /\ outcomes' = Append(outcomes, OutcomeKind(o))
    /\ UNCHANGED <<llm, graph, cancelled, parked, tool_vars, content, context, action, max_iterations, tool_runs>>

ToolsStep ==
    /\ node = "tools"
    /\ messages' = WriteMessages(messages, ToolNode(messages))
    /\ node' = "agent"
    /\ tool_runs' = tool_runs + 1
    /\ UNCHANGED <<llm, graph, cancelled, parked, tool_vars, content, context, action, iterations, max_iterations, outcomes>>

(***************************************************************************)
(* LoopSpec: the graph run directly on an initial state.                   *)
(***************************************************************************)
\* No tool invocation: the values of tool_call and tool_result outside ToolSpec.
NoCall == [name |-> "none", text |-> <<>>, focus |-> "none", focus_given |-> FALSE]
NoResult == [kind |-> "none"]

\* No second graph: the value of `studio` outside StudioSpec.
NoStudio == [messages |-> <<>>, iterations |-> 0, node |-> "none"]

\* No second request: the value of `parked` outside PairSpec.
NoRequest ==
    [ cancelled |-> FALSE, messages |-> <<>>, content |-> <<>>, context |-> {},
      action |-> "none", iterations |-> 0, max_iterations |-> 0, node |-> "none",
      outcomes |-> <<>>, tool_runs |-> 0, streamed |-> <<>>, gen_pc |-> "none",
      words |-> <<>>, pending |-> [kind |-> "none", fragment |-> <<>>],
      sse_pc |-> "none", events |-> <<>> ]

IdleStream ==
    /\ streamed = <<>>
    /\ gen_pc = "none"
    /\ words = <<>>
    /\ pending = [kind |-> "none", fragment |-> <<>>]
    /\ sse_pc = "none"
    /\ events = <<>>
    /\ script = [fragments |-> <<>>, ending |-> "stop"]

LoopInit ==
    /\ llm \in BOOLEAN
    /\ graph = TRUE
    /\ cancelled = FALSE
    /\ parked = NoRequest
    /\ studio = NoStudio
    /\ tool_call = NoCall
    /\ tool_result = NoResult
    /\ messages = <<>>
    /\ content \in SubjectTexts \cup KeywordTexts
    /\ context \in Contexts
    /\ action \in Actions
    /\ iterations = 0
    /\ max_iterations \in 0..MaxN
    /\ node = "agent"
    /\ outcomes = <<>>
    /\ tool_runs = 0
    /\ IdleStream

Reasoning == (\E o \in GatewayOutcomes : AgentStep(o)) /\ UNCHANGED <<studio, stream_vars>>

Tooling == ToolsStep /\ UNCHANGED <<studio, stream_vars>>

LoopNext == Reasoning \/ Tooling

LoopSpec == LoopInit /\ [][LoopNext]_vars

FairLoopSpec == LoopSpec /\ WF_vars(Reasoning) /\ WF_vars(Tooling)

(***************************************************************************)
(* StudioSpec: the graph of studio_graph.py and the graph of agent.py run  *)
(* side by side. Both start from the same initial state and, at each visit *)
(* of their agent nodes, the backend gives both the same outcome.          *)
(***************************************************************************)
\* The content of the entry studio_graph.py appends when llm.invoke raises:
\* the API error notice followed by the fallback text.
StudioErrorText(a, c, ctx) ==
    <<"API", Space, "Error", Space>> \o generate_mock_response(a, c, ctx)

\* A Studio agent_node that lets the exception of llm.invoke leave the node
\* uncounted and without an entry.
studio_agent_node_ErrorSkipped(msgs, its, o) ==
    LET convo == IF msgs = <<>> THEN SeedMessages(action, content, context) ELSE msgs
    IN IF llm /\ o.kind = "raise"
       THEN [messages |-> convo, iterations |-> its]
       ELSE [messages |-> Append(convo,
                 IF llm THEN Msg("assistant", o.content, o.tool_calls)
                 ELSE Msg("assistant",
                          generate_mock_response(action, content, context), <<>>)),
             iterations |-> its + 1]

\* agent_node of studio_graph.py: the try/except surrounds llm.invoke only.
studio_agent_node(msgs, its, o) ==
    LET convo == IF msgs = <<>> THEN SeedMessages(action, content, context) ELSE msgs
        reply ==
            IF llm
            THEN IF o.kind = "raise"
                 THEN Msg("assistant", StudioErrorText(action, content, context), <<>>)
                 ELSE Msg("assistant", o.content, o.tool_calls)
            ELSE Msg("assistant", generate_mock_response(action, content, context), <<>>)
    IN [messages |-> Append(convo, reply), iterations |-> its + 1]

\* should_continue of studio_graph.py.
studio_should_continue(msgs, its, maxits) ==
    IF its >= maxits THEN "end"
    ELSE IF msgs # <<>> /\ HasToolCalls(Last(msgs)) THEN "continue"
    ELSE "end"

\* The conditional edges and the tools -> agent edge of studio_graph.py.
StudioRoute(decision) == IF decision = "continue" THEN "tools" ELSE "end"

StudioAgentStep(o) ==
    /\ studio.node = "agent"
    /\ LET upd == studio_agent_node(studio.messages, studio.iterations, o)
       IN studio' =
            [ messages |-> WriteMessages(studio.messages, upd.messages),
              iterations |-> upd.iterations,
              node |-> StudioRoute(studio_should_continue(upd.messages, upd.iterations,
                                                          max_iterations)) ]

StudioToolsStep ==
    /\ studio.node = "tools"
    /\ studio' = [ studio EXCEPT
                     !.messages = WriteMessages(studio.messages, ToolNode(studio.messages)),
                     !.node = "agent" ]

StudioInit ==
    /\ llm \in BOOLEAN
    /\ graph = TRUE
    /\ cancelled = FALSE
    /\ parked = NoRequest
    /\ studio = [messages |-> <<>>, iterations |-> 0, node |-> "agent"]
    /\ tool_call = NoCall
    /\ tool_result = NoResult
    /\ messages = <<>>
    /\ content \in SubjectTexts \cup KeywordTexts
    /\ context \in Contexts
    /\ action \in Actions
    /\ iterations = 0
    /\ max_iterations \in 0..MaxN
    /\ node = "agent"
    /\ outcomes = <<>>
    /\ tool_runs = 0
    /\ IdleStream

\* Both agent nodes run, on the same outcome of the backend.
BothReasoning ==
    /\ \E o \in GatewayOutcomes : AgentStep(o) /\ StudioAgentStep(o)
    /\ UNCHANGED stream_vars

\* Both tools nodes run.
BothTooling == ToolsStep /\ StudioToolsStep /\ UNCHANGED stream_vars

StudioNext == BothReasoning \/ BothTooling

StudioSpec == StudioInit /\ [][StudioNext]_vars

(***************************************************************************)
(* Text helpers: str.split() with no argument, and the fragments the       *)
(* generators yield (word + " ").                                          *)
(***************************************************************************)
RECURSIVE Split(_)
Split(text) ==
    IF text = <<>> THEN <<>>
    ELSE IF Head(text) = Space THEN Split(Tail(text))
    ELSE LET rest == Split(Tail(text))
         IN IF Len(text) > 1 /\ text[2] # Space
            THEN <<(<<Head(text)>> \o Head(rest))>> \o Tail(rest)
            ELSE <<(<<Head(text)>>)>> \o rest

\* A fragment without the trailing space.
Fragment_NoTrailingSpace(word) == word

Fragment(word) == word \o <<Space>>

Fragments(text) == [i \in 1..Len(Split(text)) |-> Fragment(Split(text)[i])]

(***************************************************************************)
(* create_sse_stream (main.py). The generator hands a fragment, its end    *)
(* or an exception to the async for through `pending`.                     *)
(***************************************************************************)
DefaultMaxIterations == 3

Nothing == [kind |-> "none", fragment |-> <<>>]
Yielded(f) == [kind |-> "fragment", fragment |-> f]
Stopped == [kind |-> "stop", fragment |-> <<>>]
Raised == [kind |-> "raise", fragment |-> <<>>]

\* An endpoint that passes the state's action as action_type.
ActionType_StateAction(a) == a

\* The action_type the endpoint passes to create_sse_stream.
ActionType(a) == IF a = "generate" THEN "generation" ELSE a

StartEvent(t) == [type |-> t \o "_start", content |-> <<>>]
ChunkEvent(t, f) == [type |-> t \o "_chunk", content |-> f]
CompleteEvent(t) == [type |-> t \o "_complete", content |-> <<>>]
ErrorEvent(t) == [type |-> "error", content |-> <<>>]

\* A generator that runs as soon as it is created, before it is pulled.
Awaiting_BeforePull == sse_pc \in {"start", "pull"} /\ pending = Nothing

\* create_sse_stream is suspended in the async for, waiting for the generator.
Awaiting == sse_pc = "pull" /\ pending = Nothing

SseStart ==
    /\ sse_pc = "start"
    /\ events' = Append(events, StartEvent(ActionType(action)))
    /\ sse_pc' = "pull"
    /\ UNCHANGED <<llm, graph, cancelled, parked, studio, tool_vars, state_vars, loop_vars, streamed, gen_pc, words, pending, script>>

\* An async for body without the `if chunk` test.
SseChunk_EmitsEmpty ==
    /\ sse_pc = "pull"
    /\ pending.kind = "fragment"
    /\ events' = Append(events, ChunkEvent(ActionType(action), pending.fragment))
    /\ pending' = Nothing
    /\ UNCHANGED <<llm, graph, cancelled, parked, studio, tool_vars, state_vars, loop_vars, streamed, gen_pc, words, sse_pc, script>>

SseChunk ==
    /\ sse_pc = "pull"
    /\ pending.kind = "fragment"
    /\ events' = IF pending.fragment # <<>>
                 THEN Append(events, ChunkEvent(ActionType(action), pending.fragment))
                 ELSE events
    /\ pending' = Nothing
    /\ UNCHANGED <<llm, graph, cancelled, parked, studio, tool_vars, state_vars, loop_vars, streamed, gen_pc, words, sse_pc, script>>

SseComplete ==
    /\ sse_pc = "pull"
    /\ pending.kind = "stop"
    /\ events' = Append(events, CompleteEvent(ActionType(action)))
    /\ sse_pc' = "done"
    /\ pending' = Nothing
    /\ UNCHANGED <<llm, graph, cancelled, parked, studio, tool_vars, state_vars, loop_vars, streamed, gen_pc, words, script>>

\* An except clause that falls through to the completion event.
SseError_ThenComplete ==
    /\ sse_pc = "pull"
    /\ pending.kind = "raise"
    /\ events' = events \o <<ErrorEvent(ActionType(action)), CompleteEvent(ActionType(action))>>
    /\ sse_pc' = "done"
    /\ pending' = Nothing
    /\ UNCHANGED <<llm, graph, cancelled, parked, studio, tool_vars, state_vars, loop_vars, streamed, gen_pc, words, script>>

SseError ==
    /\ sse_pc = "pull"
    /\ pending.kind = "raise"
    /\ events' = Append(events, ErrorEvent(ActionType(action)))
    /\ sse_pc' = "done"
    /\ pending' = Nothing
    /\ UNCHANGED <<llm, graph, cancelled, parked, studio, tool_vars, state_vars, loop_vars, streamed, gen_pc, words, script>>

(***************************************************************************)
(* generate_text, edit_text, improve_text (agent.py): the three generators *)
(* differ in the action they put in the initial state and in the text of   *)
(* the fragment they yield from their except clause.                       *)
(***************************************************************************)
GenErrorText(a) ==
    IF a = "generate" THEN <<"Error", Space, "generating", Space, "text">>
    ELSE IF a = "edit" THEN <<"Error", Space, "editing", Space, "text">>
    ELSE <<"Error", Space, "improving", Space, "text">>

\* The words the generator will yield for one output of the agent node.
WordsOf(msgs) ==
    IF msgs # <<>> /\ Last(msgs).role = "assistant" /\ Last(msgs).content # <<>>
    THEN Split(Last(msgs).content)
    ELSE <<>>

\* A generator without the try/except: the failure of astream escapes.
GenStart_Propagates ==
    /\ Awaiting
    /\ gen_pc = "created"
    /\ IF graph
       THEN gen_pc' = "astream" /\ pending' = pending
       ELSE gen_pc' = "done" /\ pending' = Raised
    /\ UNCHANGED <<llm, graph, cancelled, parked, studio, tool_vars, state_vars, loop_vars, streamed, words, sse_pc, events, script>>

\* First pull: the initial state is built and self.graph.astream is called;
\* with graph = None that raises, and the except clause yields one fragment.
GenStart ==
    /\ Awaiting
    /\ gen_pc = "created"
    /\ IF graph
       THEN gen_pc' = "astream" /\ pending' = pending
       ELSE gen_pc' = "failed" /\ pending' = Yielded(GenErrorText(action))
    /\ UNCHANGED <<llm, graph, cancelled, parked, studio, tool_vars, state_vars, loop_vars, streamed, words, sse_pc, events, script>>

\* astream runs the agent node and yields its update, which is split.
GenAgentOn(replies) ==
    /\ Awaiting
    /\ gen_pc = "astream"
    /\ \E o \in replies : AgentStep(o)
    /\ words' = WordsOf(messages')
    /\ streamed' = Append(streamed, words')
    /\ gen_pc' = IF words' = <<>> THEN "astream" ELSE "words"
    /\ UNCHANGED <<studio, pending, sse_pc, events, script>>

GenAgent == GenAgentOn(GatewayOutcomes)

\* astream runs the tools node; its update is skipped (node_name # "agent").
GenTools ==
    /\ Awaiting
    /\ gen_pc = "astream"
    /\ ToolsStep
    /\ UNCHANGED <<studio, stream_vars>>

GenYield ==
    /\ Awaiting
    /\ gen_pc = "words"
    /\ pending' = Yielded(Fragment(Head(words)))
    /\ words' = Tail(words)
    /\ gen_pc' = "sleep"
    /\ UNCHANGED <<llm, graph, cancelled, parked, studio, tool_vars, state_vars, loop_vars, streamed, sse_pc, events, script>>

\* Resumed after the yield, the generator sleeps 0.05 s and then goes on with
\* the next word, or with astream's next output when no word is left.
GenWake ==
    /\ Awaiting
    /\ gen_pc = "sleep"
    /\ gen_pc' = IF words = <<>> THEN "astream" ELSE "words"
    /\ UNCHANGED <<llm, graph, cancelled, parked, studio, tool_vars, state_vars, loop_vars, streamed, words, pending, sse_pc, events, script>>

\* Whether `except Exception` catches an exception of class e: CancelledError
\* and GeneratorExit derive from BaseException only.
CaughtByExceptException_Everything(e) == TRUE

CaughtByExceptException(e) == e \notin {"CancelledError", "GeneratorExit"}

\* The request is suspended in an await: the event just yielded is being
\* sent, the backend call is in flight, or the generator sleeps.
SuspensionPoint ==
    /\ ~cancelled
    /\ \/ sse_pc = "start"
       \/ Awaiting /\ gen_pc \in {"created", "astream", "sleep"}

\* Client disconnect: the task is cancelled at its await. None of the except
\* clauses on the way (agent_node, the generator, create_sse_stream) catches
\* the exception, so the generators are abandoned where they stand; an
\* except clause that caught it would yield the generator's error fragment.
Cancel ==
    /\ SuspensionPoint
    /\ cancelled' = TRUE
    /\ IF sse_pc = "pull" /\ CaughtByExceptException("CancelledError")
       THEN /\ gen_pc' = "failed"
            /\ pending' = Yielded(GenErrorText(action))
            /\ sse_pc' = sse_pc
       ELSE /\ gen_pc' = "cancelled"
            /\ pending' = pending
            /\ sse_pc' = "cancelled"
    /\ UNCHANGED <<llm, graph, parked, studio, tool_vars, state_vars, loop_vars, streamed, words, events, script>>

\* astream is exhausted when the graph has reached END; after the except
\* clause's fragment the generator returns as well.
GenReturn ==
    /\ Awaiting
    /\ \/ gen_pc = "astream" /\ node = "end"
       \/ gen_pc = "failed"
    /\ gen_pc' = "done"
    /\ pending' = Stopped
    /\ UNCHANGED <<llm, graph, cancelled, parked, studio, tool_vars, state_vars, loop_vars, streamed, words, sse_pc, events, script>>

Init ==
    /\ llm \in BOOLEAN
    /\ graph \in BOOLEAN
    /\ cancelled = FALSE
    /\ parked = NoRequest
    /\ studio = NoStudio
    /\ tool_call = NoCall
    /\ tool_result = NoResult
    /\ messages = <<>>
    /\ content \in SubjectTexts
    /\ context \in Contexts
    /\ action \in KnownActions
    /\ iterations = 0
    /\ max_iterations = DefaultMaxIterations
    /\ node = "agent"
    /\ outcomes = <<>>
    /\ tool_runs = 0
    /\ streamed = <<>>
    /\ gen_pc = "created"
    /\ words = <<>>
    /\ pending = Nothing
    /\ sse_pc = "start"
    /\ events = <<>>
    /\ script = [fragments |-> <<>>, ending |-> "stop"]

\* create_sse_stream's except clause (SseError) is not among the steps of a
\* request: none of the three generators lets an Exception escape, so
\* `pending` never holds Raised here (GeneratorsNeverRaise).
Next ==
    \/ SseStart
    \/ SseChunk
    \/ SseComplete
    \/ GenStart
    \/ GenAgent
    \/ GenTools
    \/ GenYield
    \/ GenWake
    \/ GenReturn
    \/ Cancel

Spec == Init /\ [][Next]_vars

GeneratorsNeverRaise == pending # Raised

(***************************************************************************)
(* SseSpec: create_sse_stream over an arbitrary generator, which yields    *)
(* some fragments (empty ones included) and then returns or raises.        *)
(***************************************************************************)
ScriptFragments == { <<>>, <<"a", Space>>, <<"b", Space>> }

ScriptedGen ==
    /\ Awaiting
    /\ gen_pc = "scripted"
    /\ IF script.fragments # <<>>
       THEN /\ pending' = Yielded(Head(script.fragments))
            /\ script' = [script EXCEPT !.fragments = Tail(script.fragments)]
            /\ gen_pc' = gen_pc
       ELSE /\ pending' = IF script.ending = "raise" THEN Raised ELSE Stopped
            /\ script' = script
            /\ gen_pc' = "done"
    /\ UNCHANGED <<llm, graph, cancelled, parked, studio, tool_vars, state_vars, loop_vars, streamed, words, sse_pc, events>>

SseInit ==
    /\ llm = FALSE
    /\ graph = FALSE
    /\ cancelled = FALSE
    /\ parked = NoRequest
    /\ studio = NoStudio
    /\ tool_call = NoCall
    /\ tool_result = NoResult
    /\ messages = <<>>
    /\ content = EmptyText
    /\ context = {}
    /\ action \in KnownActions
    /\ iterations = 0
    /\ max_iterations = DefaultMaxIterations
    /\ node = "agent"
    /\ outcomes = <<>>
    /\ tool_runs = 0
    /\ streamed = <<>>
    /\ gen_pc = "scripted"
    /\ words = <<>>
    /\ pending = Nothing
    /\ sse_pc = "start"
    /\ events = <<>>
    /\ script \in [fragments : SeqsUpTo(ScriptFragments, MaxFragments),
                   ending : {"stop", "raise"}]

SseNext == SseStart \/ SseChunk \/ SseComplete \/ SseError \/ ScriptedGen

SseSpec == SseInit /\ [][SseNext]_vars

(***************************************************************************)
(* StreamSpec: create_sse_stream over either kind of generator, the one of *)
(* a request (Init) or an arbitrary one (SseInit).                         *)
(***************************************************************************)
StreamInit == Init \/ SseInit

StreamNext ==
    \/ SseStart
    \/ SseChunk
    \/ SseComplete
    \/ SseError
    \/ ScriptedGen
    \/ GenStart
    \/ GenAgent
    \/ GenTools
    \/ GenYield
    \/ GenWake
    \/ GenReturn
    \/ Cancel

StreamSpec == StreamInit /\ [][StreamNext]_vars

(***************************************************************************)
(* PairSpec: two requests on the module's single WritingAgent (main.py).   *)
(* llm and graph belong to the shared agent; everything else is local to a *)
(* request: initial_state is a local of the generator, the graph keeps the *)
(* state of each astream run apart, and create_sse_stream has only locals. *)
(* One request runs at a time; the event loop leaves it for the other one  *)
(* only where it awaits or when it has finished.                           *)
(***************************************************************************)
\* The locals of the running request.
Park ==
    [ cancelled |-> cancelled, messages |-> messages, content |-> content,
      context |-> context, action |-> action, iterations |-> iterations,
      max_iterations |-> max_iterations, node |-> node, outcomes |-> outcomes,
      tool_runs |-> tool_runs, streamed |-> streamed, gen_pc |-> gen_pc,
      words |-> words, pending |-> pending, sse_pc |-> sse_pc, events |-> events ]

\* A request resumed with the transcript the other request left behind, as
\* if messages were kept on the shared agent.
Restore_MessagesOnAgent(p) == [p EXCEPT !.messages = messages]

\* What a request finds in its locals when it is resumed.
Restore(p) == p

SwitchPoint ==
    \/ sse_pc \in {"start", "done"}
    \/ Awaiting /\ gen_pc \in {"created", "astream", "sleep"}

Switch ==
    /\ SwitchPoint
    /\ parked' = Park
    /\ LET r == Restore(parked)
       IN /\ cancelled' = r.cancelled
          /\ messages' = r.messages
          /\ content' = r.content
          /\ context' = r.context
          /\ action' = r.action
          /\ iterations' = r.iterations
          /\ max_iterations' = r.max_iterations
          /\ node' = r.node
          /\ outcomes' = r.outcomes
          /\ tool_runs' = r.tool_runs
          /\ streamed' = r.streamed
          /\ gen_pc' = r.gen_pc
          /\ words' = r.words
          /\ pending' = r.pending
          /\ sse_pc' = r.sse_pc
          /\ events' = r.events
    /\ UNCHANGED <<llm, graph, script, studio, tool_vars>>

\* The two requests of PairSpec.
PairInputs ==
    { [action |-> "generate", content |-> <<"s">>, context |-> {"style"}],
      [action |-> "edit", content |-> <<"History">>, context |-> {}] }

NewRequest(in) ==
    [ cancelled |-> FALSE, messages |-> <<>>, content |-> in.content,
      context |-> in.context, action |-> in.action, iterations |-> 0,
      max_iterations |-> DefaultMaxIterations, node |-> "agent", outcomes |-> <<>>,
      tool_runs |-> 0, streamed |-> <<>>, gen_pc |-> "created", words |-> <<>>,
      pending |-> Nothing, sse_pc |-> "start", events |-> <<>> ]

\* In PairSpec the backend gives one reply of each kind: a two-word reply
\* with one tool call, an empty reply without tool calls, or it raises.
PairReply(k) ==
    IF k = "raise" THEN [kind |-> "raise", content |-> EmptyText, tool_calls |-> <<>>]
    ELSE IF k = "tool_calls"
    THEN [kind |-> "reply", content |-> <<"a", Space, "b">>,
          tool_calls |-> <<Call("analyze_text_structure")>>]
    ELSE [kind |-> "reply", content |-> EmptyText, tool_calls |-> <<>>]

PairOutcomes == { PairReply(k) : k \in {"raise", "tool_calls", "content"} }

PairInit ==
    /\ llm \in BOOLEAN
    /\ graph = TRUE
    /\ \E first \in PairInputs, second \in PairInputs :
         /\ first # second
         /\ parked = NewRequest(second)
         /\ studio = NoStudio
         /\ tool_call = NoCall
         /\ tool_result = NoResult
         /\ LET r == NewRequest(first)
            IN /\ cancelled = r.cancelled
               /\ messages = r.messages
               /\ content = r.content
               /\ context = r.context
               /\ action = r.action
               /\ iterations = r.iterations
               /\ max_iterations = r.max_iterations
               /\ node = r.node
               /\ outcomes = r.outcomes
               /\ tool_runs = r.tool_runs
               /\ streamed = r.streamed
               /\ gen_pc = r.gen_pc
               /\ words = r.words
               /\ pending = r.pending
               /\ sse_pc = r.sse_pc
               /\ events = r.events
    /\ script = [fragments |-> <<>>, ending |-> "stop"]

PairGenAgent == GenAgentOn(PairOutcomes)

PairNext ==
    \/ SseStart
    \/ SseChunk
    \/ SseComplete
    \/ GenStart
    \/ PairGenAgent
    \/ GenTools
    \/ GenYield
    \/ GenWake
    \/ GenReturn
    \/ Switch

PairSpec == PairInit /\ [][PairNext]_vars

(***************************************************************************)
(* ToolSpec: the three tools of agent.py called directly. Texts are        *)
(* sequences of characters; the whitespace characters are the space and    *)
(* the newline.                                                            *)
(***************************************************************************)
NL == "\n"
IsWhitespace(c) == c \in {Space, NL}
IsBlank(t) == \A i \in 1..Len(t) : IsWhitespace(t[i])

\* str.split() with newlines among the whitespace.
RECURSIVE SplitWhitespace(_)
SplitWhitespace(text) ==
    IF IsBlank(text) THEN <<>>
    ELSE LET s == CHOOSE k \in 1..Len(text) :
                      ~IsWhitespace(text[k]) /\ \A j \in 1..(k - 1) : IsWhitespace(text[j])
             e == CHOOSE k \in s..Len(text) :
                      /\ \A j \in s..k : ~IsWhitespace(text[j])
                      /\ k = Len(text) \/ IsWhitespace(text[k + 1])
         IN <<SubSeq(text, s, e)>> \o SplitWhitespace(SubSeq(text, e + 1, Len(text)))

\* text.split('\n'): the pieces between single newlines.
RECURSIVE SplitLines(_)
SplitLines(text) ==
    IF \E i \in 1..Len(text) : text[i] = NL
    THEN LET i == CHOOSE k \in 1..Len(text) :
                      text[k] = NL /\ \A j \in 1..(k - 1) : text[j] # NL
         IN <<SubSeq(text, 1, i - 1)>> \o SplitLines(SubSeq(text, i + 1, Len(text)))
    ELSE <<text>>

\* text.split('\n\n'): the separator is matched from the left, without
\* overlap.
RECURSIVE SplitBlankLine(_)
SplitBlankLine(text) ==
    IF \E i \in 1..(Len(text) - 1) : text[i] = NL /\ text[i + 1] = NL
    THEN LET i == CHOOSE k \in 1..(Len(text) - 1) :
                      /\ text[k] = NL /\ text[k + 1] = NL
                      /\ \A j \in 1..(k - 1) : ~(text[j] = NL /\ text[j + 1] = NL)
         IN <<SubSeq(text, 1, i - 1)>> \o SplitBlankLine(SubSeq(text, i + 2, Len(text)))
    ELSE <<text>>

\* A paragraph count that takes every line for a paragraph.
analyze_text_structure_CountsLines(text) ==
    IF IsBlank(text) THEN [kind |-> "notice", text |-> "Empty text provided"]
    ELSE LET paragraphs == SelectSeq(SplitLines(text), LAMBDA p : ~IsBlank(p))
         IN [kind |-> "analysis",
             word_count |-> Len(SplitWhitespace(text)),
             character_count |-> Len(text),
             line_count |-> Len(SplitLines(text)),
             paragraph_count |-> Len(paragraphs),
             structure |-> IF Len(paragraphs) > 1 THEN "multi-paragraph" ELSE "single-block"]

analyze_text_structure(text) ==
    IF IsBlank(text) THEN [kind |-> "notice", text |-> "Empty text provided"]
    ELSE LET paragraphs == SelectSeq(SplitBlankLine(text), LAMBDA p : ~IsBlank(p))
         IN [kind |-> "analysis",
             word_count |-> Len(SplitWhitespace(text)),
             character_count |-> Len(text),
             line_count |-> Len(SplitLines(text)),
             paragraph_count |-> Len(paragraphs),
             structure |-> IF Len(paragraphs) > 1 THEN "multi-paragraph" ELSE "single-block"]

\* Unknown focus values get no suggestion at all.
suggest_improvements_UnknownEmpty(text, focus) ==
    [kind |-> "suggestions", focus |-> focus,
     suggestions |->
        IF focus = "clarity"
        THEN <<"Consider breaking long sentences into shorter ones",
               "Use active voice where possible",
               "Replace complex words with simpler alternatives">>
        ELSE IF focus = "structure"
        THEN <<"Add clear topic sentences to paragraphs",
               "Use transitional phrases between ideas",
               "Consider reorganizing for logical flow">>
        ELSE IF focus = "engagement"
        THEN <<"Add compelling examples or anecdotes",
               "Use questions to engage readers",
               "Vary sentence length and structure">>
        ELSE IF focus = "general"
        THEN <<"Check for grammar and spelling errors",
               "Ensure consistent tone throughout",
               "Remove unnecessary words and phrases">>
        ELSE <<>>]

suggest_improvements(text, focus) ==
    [kind |-> "suggestions", focus |-> focus,
     suggestions |->
        IF focus = "clarity"
        THEN <<"Consider breaking long sentences into shorter ones",
               "Use active voice where possible",
               "Replace complex words with simpler alternatives">>
        ELSE IF focus = "structure"
        THEN <<"Add clear topic sentences to paragraphs",
               "Use transitional phrases between ideas",
               "Consider reorganizing for logical flow">>
        ELSE IF focus = "engagement"
        THEN <<"Add compelling examples or anecdotes",
               "Use questions to engage readers",
               "Vary sentence length and structure">>
        ELSE <<"Check for grammar and spelling errors",
               "Ensure consistent tone throughout",
               "Remove unnecessary words and phrases">>]

\* str.lower and str.isalnum on the characters used here.
LowerChar(c) ==
    IF c = "B" THEN "b" ELSE IF c = "F" THEN "f" ELSE IF c = "T" THEN "t" ELSE c

LowerStr(t) == [i \in 1..Len(t) |-> LowerChar(t[i])]

IsAlnum(c) == c \notin {Space, NL, ",", "-", "!"}

common_words ==
    { <<"t", "h", "e">>,
      <<"a", "n", "d">>,
      <<"o", "r">>,
      <<"b", "u", "t">>,
      <<"i", "n">>,
      <<"o", "n">>,
      <<"a", "t">>,
      <<"t", "o">>,
      <<"f", "o", "r">>,
      <<"o", "f">>,
      <<"w", "i", "t", "h">>,
      <<"b", "y">>,
      <<"a">>,
      <<"a", "n">>,
      <<"i", "s">>,
      <<"a", "r", "e">>,
      <<"w", "a", "s">>,
      <<"w", "e", "r", "e">>,
      <<"b", "e">>,
      <<"b", "e", "e", "n">>,
      <<"h", "a", "v", "e">>,
      <<"h", "a", "s">>,
      <<"h", "a", "d">>,
      <<"d", "o">>,
      <<"d", "o", "e", "s">>,
      <<"d", "i", "d">>,
      <<"w", "i", "l", "l">>,
      <<"w", "o", "u", "l", "d">>,
      <<"c", "o", "u", "l", "d">>,
      <<"s", "h", "o", "u", "l", "d">>,
      <<"m", "a", "y">>,
      <<"m", "i", "g", "h", "t">>,
      <<"c", "a", "n">>,
      <<"t", "h", "i", "s">>,
      <<"t", "h", "a", "t">>,
      <<"t", "h", "e", "s", "e">>,
      <<"t", "h", "o", "s", "e">> }

\* word_freq: the dict as its items in insertion order, <<word, count>>.
RECURSIVE CountWords(_, _)
CountWords(ws, items) ==
    IF ws = <<>> THEN items
    ELSE LET clean_word == SelectSeq(Head(ws), IsAlnum)
         IN IF Len(clean_word) > 3 /\ clean_word \notin common_words
            THEN IF \E i \in 1..Len(items) : items[i][1] = clean_word
                 THEN LET i == CHOOSE k \in 1..Len(items) : items[k][1] = clean_word
                      IN CountWords(Tail(ws), [items EXCEPT ![i] = <<@[1], @[2] + 1>>])
                 ELSE CountWords(Tail(ws), Append(items, <<clean_word, 1>>))
            ELSE CountWords(Tail(ws), items)

\* sorted(items, key=count, reverse=True): a stable sort, so items with the
\* same count keep their order.
RECURSIVE SortedByCount(_)
SortedByCount(items) ==
    IF items = <<>> THEN <<>>
    ELSE LET x == Last(items)
             front == SortedByCount(SubSeq(items, 1, Len(items) - 1))
             keep == SelectSeq(front, LAMBDA y : y[2] >= x[2])
             move == SelectSeq(front, LAMBDA y : y[2] < x[2])
         IN keep \o <<x>> \o move

\* A sort that puts the later of two items with the same count first.
RECURSIVE SortedByCount_TiesReversed(_)
SortedByCount_TiesReversed(items) ==
    IF items = <<>> THEN <<>>
    ELSE LET x == Last(items)
             front == SortedByCount_TiesReversed(SubSeq(items, 1, Len(items) - 1))
             keep == SelectSeq(front, LAMBDA y : y[2] > x[2])
             move == SelectSeq(front, LAMBDA y : y[2] <= x[2])
         IN keep \o <<x>> \o move

extract_key_themes_TiesReversed(text) ==
    IF IsBlank(text) THEN [kind |-> "notice", text |-> "No themes found in empty text"]
    ELSE LET word_freq == CountWords(SplitWhitespace(LowerStr(text)), <<>>)
             sorted == SortedByCount_TiesReversed(word_freq)
             top_themes == SubSeq(sorted, 1, IF Len(sorted) < 5 THEN Len(sorted) ELSE 5)
         IN [kind |-> "themes", themes |-> [i \in 1..Len(top_themes) |-> top_themes[i][1]]]

extract_key_themes(text) ==
    IF IsBlank(text) THEN [kind |-> "notice", text |-> "No themes found in empty text"]
    ELSE LET word_freq == CountWords(SplitWhitespace(LowerStr(text)), <<>>)
             sorted == SortedByCount(word_freq)
             top_themes == SubSeq(sorted, 1, IF Len(sorted) < 5 THEN Len(sorted) ELSE 5)
         IN [kind |-> "themes", themes |-> [i \in 1..Len(top_themes) |-> top_themes[i][1]]]

\* The inputs the tools are tried on.
MaxChars == 5       \* length of the texts of characters the text functions are tried on
MaxTokens == 3      \* tokens of the texts extract_key_themes is tried on

StructureTexts == SeqsUpTo({"a", Space, NL}, MaxChars)

ThemeTokens ==
    { <<"b", "e", "t", "a">>,
      <<"B", "e", "t", "a", ",">>,
      <<"b", "e", "-", "t", "a">>,
      <<"z", "e", "t", "a">>,
      <<"t", "h", "e">>,
      <<"T", "h", "i", "s">>,
      <<"a", "b", "c", "!">>,
      <<"-", "-">> }

RECURSIVE JoinTokens(_)
JoinTokens(ts) ==
    IF ts = <<>> THEN <<>>
    ELSE IF Len(ts) = 1 THEN Head(ts)
    ELSE Head(ts) \o <<Space>> \o JoinTokens(Tail(ts))

LongThemeTexts ==
    { <<"i", "o", "t", "a", Space, "b", "e", "t", "a", Space, "z", "e", "t", "a", Space, "d", "a", "t", "a", Space, "m", "e", "t", "a", Space, "f", "e", "t", "a">>,
      <<"i", "o", "t", "a", Space, "b", "e", "t", "a", Space, "z", "e", "t", "a", Space, "d", "a", "t", "a", Space, "m", "e", "t", "a", Space, "f", "e", "t", "a", Space, "f", "e", "t", "a">>,
      <<"i", "o", "t", "a", Space, "b", "e", "t", "a", Space, "z", "e", "t", "a", Space, "d", "a", "t", "a", Space, "m", "e", "t", "a", Space, "f", "e", "t", "a", Space, "m", "e", "t", "a", Space, "F", "e", "t", "a", "!", Space, "w", "o", "u", "l", "d">> }

ThemeTexts ==
    { JoinTokens(ts) : ts \in SeqsUpTo(ThemeTokens, MaxTokens) }
    \cup LongThemeTexts \cup { <<Space>>, <<NL, Space>> }

KnownFocus == {"clarity", "structure", "engagement", "general"}
FocusValues == KnownFocus \cup {"tone", "", "Clarity"}

ToolCalls ==
    [name : {"analyze_text_structure"}, text : StructureTexts,
     focus : {"none"}, focus_given : {FALSE}]
    \cup [name : {"extract_key_themes"}, text : ThemeTexts,
          focus : {"none"}, focus_given : {FALSE}]
    \cup [name : {"suggest_improvements"}, text : {<<>>, <<"a", NL, NL, "a">>},
          focus : FocusValues, focus_given : {TRUE}]
    \cup [name : {"suggest_improvements"}, text : {<<>>, <<"a", NL, NL, "a">>},
          focus : {"none"}, focus_given : {FALSE}]

ToolInit ==
    /\ llm = FALSE
    /\ graph = FALSE
    /\ cancelled = FALSE
    /\ parked = NoRequest
    /\ studio = NoStudio
    /\ tool_call \in ToolCalls
    /\ tool_result = NoResult
    /\ messages = <<>>
    /\ content = EmptyText
    /\ context = {}
    /\ action = "generate"
    /\ iterations = 0
    /\ max_iterations = DefaultMaxIterations
    /\ node = "none"
    /\ outcomes = <<>>
    /\ tool_runs = 0
    /\ IdleStream

ToolFrame ==
    UNCHANGED <<llm, graph, cancelled, parked, studio, tool_call, state_vars, loop_vars, stream_vars>>

CallAnalyze ==
    /\ tool_result = NoResult
    /\ tool_call.name = "analyze_text_structure"
    /\ tool_result' = analyze_text_structure(tool_call.text)
    /\ ToolFrame

\* focus has the default "general" when the call does not give it.
CallSuggest ==
    /\ tool_result = NoResult
    /\ tool_call.name = "suggest_improvements"
    /\ tool_result' = suggest_improvements(tool_call.text,
                         IF tool_call.focus_given THEN tool_call.focus ELSE "general")
    /\ ToolFrame

CallExtract ==
    /\ tool_result = NoResult
    /\ tool_call.name = "extract_key_themes"
    /\ tool_result' = extract_key_themes(tool_call.text)
    /\ ToolFrame

ToolNext == CallAnalyze \/ CallSuggest \/ CallExtract

ToolSpec == ToolInit /\ [][ToolNext]_vars

(***************************************************************************)
(* Properties of the graph run (LoopSpec, FairLoopSpec).                   *)
(***************************************************************************)
ReasoningCycles == Len(outcomes)
AfterReasoning == Len(outcomes') = Len(outcomes) + 1
AlwaysRequestsTools == \A i \in 1..Len(outcomes) : outcomes[i] = "tool_calls"
NeverRequestsTools == \A i \in 1..Len(outcomes) : outcomes[i] # "tool_calls"

\* C1: a run started with iterations = 0 performs at most max_iterations
\* Reasoning cycles, for every max_iterations including 0, and iterations
\* never exceeds max_iterations.
C1_AtMostMaxIterations ==
    /\ ReasoningCycles <= max_iterations
    /\ iterations <= max_iterations

\* C2: every run of the graph eventually reaches End, whatever the backend
\* returns on each cycle and for every max_iterations.
C2_ReachesEnd == <>(node = "end")

C2_Witness ==
    /\ node = "end"
    /\ tool_runs >= 1
    /\ Last(outcomes) = "raise"

\* C3: after every Reasoning step the next node is End if iterations >=
\* max_iterations, otherwise Tooling if the last message carries at least one
\* tool call, otherwise End; the bound check comes first.
C3_TransitionRule ==
    [][AfterReasoning =>
         node' = IF iterations' >= max_iterations THEN "end"
                 ELSE IF Len(Last(messages').tool_calls) > 0 THEN "tools"
                 ELSE "end"]_vars

C3_Witness ==
    /\ node = "end"
    /\ ReasoningCycles >= 1
    /\ iterations >= max_iterations
    /\ Len(Last(messages).tool_calls) > 0

\* C4: when the backend requests a tool call on every cycle, a run with
\* max_iterations = N >= 1 ends after exactly N Reasoning cycles and N - 1
\* Tooling cycles, and the N-th assistant entry is not dispatched to Tooling.
C4_AlwaysToolsCounts ==
    (max_iterations >= 1 /\ AlwaysRequestsTools) =>
        /\ ReasoningCycles <= max_iterations
        /\ tool_runs <= max_iterations - 1
        /\ node = "end" =>
            /\ ReasoningCycles = max_iterations
            /\ tool_runs = max_iterations - 1
            /\ HasToolCalls(Last(messages))

C4_Witness ==
    /\ node = "end"
    /\ max_iterations = 3
    /\ outcomes = <<"tool_calls", "tool_calls", "tool_calls">>
    /\ tool_runs = 2

\* C5: when the backend never requests a tool call, the run ends after
\* exactly 1 Reasoning cycle and 0 Tooling cycles, for every N >= 1.
C5_NoToolsOneCycle ==
    (max_iterations >= 1 /\ NeverRequestsTools) =>
        /\ ReasoningCycles <= 1
        /\ tool_runs = 0
        /\ (node = "end") = (ReasoningCycles = 1)

C5_Witness ==
    /\ node = "end"
    /\ max_iterations = 3
    /\ outcomes = <<"content">>
    /\ tool_runs = 0

\* C6: every execution of agent_node increases iterations by exactly 1,
\* whether the backend call returns or raises.
C6_IncrementsOnce == [][AfterReasoning => iterations' = iterations + 1]_vars

C6_Witness ==
    /\ ReasoningCycles = 2
    /\ outcomes[2] = "raise"
    /\ iterations = 2

\* C7: in every state after the first Reasoning cycle, messages is non-empty
\* and begins with the system entry and the user entry built at the start.
C7_SeededPrefix ==
    ReasoningCycles >= 1 =>
        /\ Len(messages) >= 2
        /\ messages[1] = SeedMessages(action, content, context)[1]
        /\ messages[2] = SeedMessages(action, content, context)[2]

(***************************************************************************)
(* Properties of the event stream (SseSpec, Spec).                         *)
(***************************************************************************)
IsStart(e) == e.type = ActionType(action) \o "_start"
IsChunk(e) == e.type = ActionType(action) \o "_chunk"
IsComplete(e) == e.type = ActionType(action) \o "_complete"
IsError(e) == e.type = "error"
IsTerminal(e) == IsComplete(e) \/ IsError(e)

RECURSIVE ChunkContents(_)
ChunkContents(evs) ==
    IF evs = <<>> THEN <<>>
    ELSE IF IsChunk(Head(evs)) THEN <<Head(evs).content>> \o ChunkContents(Tail(evs))
    ELSE ChunkContents(Tail(evs))

\* C8: a stream of create_sse_stream is one start event, then chunk events
\* only, then exactly one terminal event (complete when the generator is
\* exhausted, error when it raised, never both) after which nothing follows.
C8_StreamShape ==
    /\ (sse_pc = "start") = (events = <<>>)
    /\ events # <<>> => IsStart(events[1])
    /\ \A i \in 2..Len(events) :
          IF i < Len(events) \/ sse_pc # "done"
          THEN IsChunk(events[i])
          ELSE IsTerminal(events[i]) /\ ~IsChunk(events[i])
    /\ sse_pc = "done" =>
          /\ Len(events) >= 2
          /\ IsComplete(Last(events)) = (script.ending = "stop")
          /\ IsError(Last(events)) = (script.ending = "raise")

C8_Witness ==
    /\ sse_pc = "done"
    /\ Len(events) = 4
    /\ IsChunk(events[2])
    /\ IsChunk(events[3])
    /\ IsError(events[4])

\* C9: when composing the assistant entry raises (the graph is None, so
\* self.graph.astream raises), the stream is start followed by exactly one
\* error event, with no chunk and no complete event.
C9_ErrorEventOnFailure ==
    (~graph /\ sse_pc = "done") =>
        /\ Len(events) = 2
        /\ IsStart(events[1])
        /\ IsError(events[2])

\* C10: the chunk events of a finished stream carry exactly the fragments of
\* the terminal assistant entry; entries of earlier Reasoning cycles that
\* were followed by Tooling contribute no chunk.
C10_OnlyTerminalEntryStreamed ==
    (graph /\ sse_pc = "done") =>
        ChunkContents(events) = Fragments(Last(messages).content)

(***************************************************************************)
(* Failure handling of a request (Spec).                                   *)
(***************************************************************************)
Transcript == IF messages = <<>> THEN SeedMessages(action, content, context) ELSE messages
SomeOutcome(k) == \E i \in 1..Len(outcomes) : outcomes[i] = k
NoErrorEvent == \A i \in 1..Len(events) : ~IsError(events[i])
EndsWith(s, t) == Len(s) >= Len(t) /\ SubSeq(s, Len(s) - Len(t) + 1, Len(s)) = t

\* C11: a backend call that raises in any Reasoning cycle is absorbed inside
\* the loop: one assistant entry carrying the error text is appended, the
\* graph goes to End, and the stream then ends with a complete event, its
\* last chunks being the error text, without any error event.
C11_GatewayFailureAbsorbed ==
    /\ [][(AfterReasoning /\ Last(outcomes') = "raise") =>
            /\ messages' = Append(Transcript, Msg("assistant", AgentErrorText, <<>>))
            /\ node' = "end"]_vars
    /\ [](SomeOutcome("raise") =>
            /\ NoErrorEvent
            /\ sse_pc = "done" =>
                /\ IsComplete(Last(events))
                /\ EndsWith(ChunkContents(events), Fragments(AgentErrorText)))

C11_Witness ==
    /\ sse_pc = "done"
    /\ outcomes = <<"tool_calls", "raise">>
    /\ IsComplete(Last(events))

\* C12: with no live backend (llm is None, the graph compiled) every request,
\* for every action, runs exactly one Reasoning cycle and no Tooling cycle,
\* ends with a non-empty assistant entry, at least one chunk event and a
\* complete event, and never emits an error event.
Unconfigured == ~llm /\ graph

C12_OfflineFallbackCompletes ==
    Unconfigured =>
        /\ ReasoningCycles <= 1
        /\ tool_runs = 0
        /\ NoErrorEvent
        /\ sse_pc = "done" =>
            /\ ReasoningCycles = 1
            /\ Last(messages).role = "assistant"
            /\ Last(messages).content # <<>>
            /\ Len(ChunkContents(events)) >= 1
            /\ IsComplete(Last(events))

C12_Witness ==
    /\ Unconfigured
    /\ action = "edit"
    /\ sse_pc = "done"
    /\ Len(ChunkContents(events)) = 2

(***************************************************************************)
(* The offline fallback (LoopSpec).                                        *)
(***************************************************************************)
\* The fallback entry of agent.py as a function of the action alone.
FallbackEntry(a) ==
    Msg("assistant",
        IF a = "generate" THEN <<"MockGenerate", Space, "text">>
        ELSE IF a = "improve" THEN <<"MockImprove", Space, "text">>
        ELSE <<"MockResponseFor", Space, a>>,
        <<>>)

\* C13: the offline fallback is determined by action and subject text alone:
\* whatever the context (and the state of the run), the entry agent_node
\* appends is the same function of the action, and the Studio fallback gives
\* the same text for every context.
C13_FallbackDependsOnActionAndSubject ==
    /\ (~llm /\ ReasoningCycles >= 1) => Last(messages) = FallbackEntry(action)
    /\ \A ctx \in SUBSET ContextKeys :
          generate_mock_response(action, content, ctx)
              = generate_mock_response(action, content, {})

C13_Witness ==
    /\ ~llm
    /\ ReasoningCycles = 1
    /\ context = {"style"}
    /\ content = <<"new", Space, "Technology">>
    /\ action = "improve"
    /\ generate_mock_response(action, content, context)
           = <<"StudioImprovedTechnology", Space, "text">>

(***************************************************************************)
(* Cancellation (Spec).                                                    *)
(***************************************************************************)
\* C14: once a request is cancelled at a suspension point (backend call in
\* flight, pacing delay, event being sent), no further event of any kind is
\* emitted and no further fragment is produced.
C14_NothingAfterCancel ==
    [][cancelled' =>
         /\ events' = events
         /\ pending' = pending
         /\ words' = words
         /\ messages' = messages]_vars

C14_WitnessDuringDelay ==
    /\ cancelled
    /\ sse_pc = "cancelled"
    /\ words # <<>>
    /\ Len(events) = 2
    /\ ~IsTerminal(Last(events))

(***************************************************************************)
(* The tools node, the Gateway calls of a visit, the templates, the frame  *)
(* of a run and the transcript at END (LoopSpec).                          *)
(***************************************************************************)
AfterTooling == tool_runs' = tool_runs + 1

\* C16: a Tooling cycle appends to messages exactly one tool-result entry
\* per requested invocation, in request order (an unknown tool giving an
\* error string as its result), and then returns to Reasoning.
C16_ToolingAppendsResults ==
    [][AfterTooling =>
         /\ messages' = messages \o ToolNode(messages)
         /\ node' = "agent"]_vars

\* C17: a Reasoning visit makes one backend call and no retry: the visit
\* that counts an iteration consumes exactly one outcome and appends exactly
\* one assistant entry (the error entry when the call raised), so the number
\* of backend calls always equals iterations.
C17_OneGatewayCallPerVisit ==
    /\ [](iterations = Len(outcomes))
    /\ [][iterations' # iterations =>
            /\ iterations' = iterations + 1
            /\ Len(outcomes') = Len(outcomes) + 1
            /\ Len(messages') = Len(Transcript) + 1
            /\ Last(messages').role = "assistant"
            /\ Last(outcomes') = "raise" => Last(messages').content = AgentErrorText]_vars

C17_Witness ==
    /\ node = "end"
    /\ outcomes = <<"tool_calls", "raise">>
    /\ iterations = 2
    /\ Last(messages).content = AgentErrorText

\* C18: for an action outside {generate, edit, improve} the system entry and
\* the first user entry are those built for action = generate.
C18_UnknownActionUsesGenerateTemplates ==
    (action \notin KnownActions /\ ReasoningCycles >= 1 /\ tool_runs = 0) =>
        SubSeq(messages, 1, 2) = SeedMessages("generate", content, context)

\* C19: action, content, context and max_iterations never change, and only
\* a Reasoning step changes iterations (a Tooling step leaves it alone).
C19_FrameOfRun ==
    [][/\ action' = action
       /\ content' = content
       /\ context' = context
       /\ max_iterations' = max_iterations
       /\ iterations' # iterations => AfterReasoning
       /\ AfterTooling => iterations' = iterations]_vars

C19_Witness ==
    /\ tool_runs = 1
    /\ iterations = 1
    /\ node = "agent"
    /\ action = "summarize"

\* The assistant entry a Reasoning step appends for an outcome of kind k.
IsEntryOf(m, k) ==
    /\ m.role = "assistant"
    /\ k = "raise" => m.content = AgentErrorText /\ m.tool_calls = <<>>
    /\ k = "mock" => m.content = MockResponse(action) /\ m.tool_calls = <<>>
    /\ k = "content" => m.tool_calls = <<>>
    /\ k = "tool_calls" => Len(m.tool_calls) > 0

\* C20: at END the last entry of messages is the assistant entry of the most
\* recent Reasoning step: END is entered by a Reasoning step only, and no
\* tool-result entry follows that entry.
C20_EndsOnLastReasoningEntry ==
    /\ [](node = "end" =>
            /\ outcomes # <<>>
            /\ messages # <<>>
            /\ IsEntryOf(Last(messages), Last(outcomes)))
    /\ [][(node # "end" /\ node' = "end") => AfterReasoning]_vars

C20_WitnessBoundCutsToolCalls ==
    /\ node = "end"
    /\ tool_runs = 2
    /\ Last(outcomes) = "tool_calls"
    /\ Len(Last(messages).tool_calls) = 2

(***************************************************************************)
(* Two concurrent requests (PairSpec).                                     *)
(***************************************************************************)
\* The run of the graph a request makes when it is alone: the state after
\* the backend has given replies of the kinds `kinds`, the tools node having
\* run `truns` times, and the words split from each agent update.
RECURSIVE AloneLoop(_, _, _, _)
AloneLoop(msgs, its, kinds, truns) ==
    IF kinds = <<>>
    THEN [messages |-> msgs, iterations |-> its, node |-> "agent", streamed |-> <<>>]
    ELSE LET upd == agent_node(msgs, its, PairReply(Head(kinds)))
             nxt == Route(should_continue(upd.messages, upd.iterations, max_iterations))
             w   == WordsOf(upd.messages)
         IN IF nxt = "tools" /\ truns > 0
            THEN LET rest == AloneLoop(ToolNode(upd.messages), upd.iterations,
                                       Tail(kinds), truns - 1)
                 IN [rest EXCEPT !.streamed = <<w>> \o @]
            ELSE [messages |-> upd.messages, iterations |-> upd.iterations,
                  node |-> nxt, streamed |-> <<w>>]

RECURSIVE AllFragments(_)
AllFragments(wordlists) ==
    IF wordlists = <<>> THEN <<>>
    ELSE [i \in 1..Len(Head(wordlists)) |-> Fragment(Head(wordlists)[i])]
         \o AllFragments(Tail(wordlists))

\* The running request is where it would be had it run alone with the same
\* inputs and the same backend replies: same state of the graph, and the
\* events emitted so far, the fragment in flight and the words still to
\* yield together are the alone run's stream.
RunsAsAlone ==
    LET alone    == AloneLoop(<<>>, 0, outcomes, tool_runs)
        all      == AllFragments(alone.streamed)
        t        == ActionType(action)
        finished == IF sse_pc = "done" THEN 1 ELSE 0
        n        == Len(events) - 1 - finished
        inflight == IF pending.kind = "fragment" THEN <<pending.fragment>> ELSE <<>>
        toyield  == [i \in 1..Len(words) |-> Fragment(words[i])]
    IN /\ messages = alone.messages
       /\ iterations = alone.iterations
       /\ node = alone.node
       /\ streamed = alone.streamed
       /\ max_iterations = DefaultMaxIterations
       /\ IF sse_pc = "start" THEN events = <<>>
          ELSE /\ n >= 0
               /\ n <= Len(all)
               /\ events = <<StartEvent(t)>>
                           \o [i \in 1..n |-> ChunkEvent(t, all[i])]
                           \o (IF finished = 1 THEN <<CompleteEvent(t)>> ELSE <<>>)
               /\ SubSeq(all, n + 1, Len(all)) = inflight \o toyield
               /\ finished = 1 => node = "end"

InputsOf(r) == [action |-> r.action, content |-> r.content, context |-> r.context]

\* C15: two requests interleaved at their awaits each keep the state and the
\* event sequence of a run alone; a step of one never touches the locals of
\* the other, and no step writes the shared agent.
C15_RequestsIsolated ==
    /\ [](RunsAsAlone)
    /\ [](InputsOf(Park) \in PairInputs /\ InputsOf(parked) \in PairInputs
          /\ InputsOf(Park) # InputsOf(parked))
    /\ [][/\ llm' = llm
          /\ graph' = graph
          /\ parked' # parked => (parked' = Park /\ Park' = parked)]_vars

C15_WitnessBothMidStream ==
    /\ llm
    /\ gen_pc = "sleep"
    /\ parked.gen_pc = "sleep"
    /\ outcomes = <<"tool_calls", "raise">>
    /\ parked.outcomes = <<"tool_calls">>
    /\ Len(events) = 4
    /\ Len(parked.events) = 2

(***************************************************************************)
(* Fragments and event types of a stream (Spec).                           *)
(***************************************************************************)
\* Whitespace-separated tokens of a text, read off the text directly: a
\* token starts at a non-space character that is first or follows a space,
\* and runs up to the next space or the end.
TokenStarts(t) ==
    SelectSeq([i \in 1..Len(t) |-> i],
              LAMBDA i : t[i] # Space /\ (i = 1 \/ t[i - 1] = Space))

TokenAt(t, s) ==
    LET e == CHOOSE j \in s..Len(t) :
                 /\ \A k \in s..j : t[k] # Space
                 /\ j = Len(t) \/ t[j + 1] = Space
    IN SubSeq(t, s, e)

Tokens(t) == [i \in 1..Len(TokenStarts(t)) |-> TokenAt(t, TokenStarts(t)[i])]

SplitInputs == SeqsUpTo({"a", "b", Space}, MaxChars)

SplitYieldsTokens == \A t \in SplitInputs : Split(t) = Tokens(t)

RECURSIVE WordsStreamed(_)
WordsStreamed(wordlists) ==
    IF wordlists = <<>> THEN <<>> ELSE Head(wordlists) \o WordsStreamed(Tail(wordlists))

\* C21: an assistant text of tokens t1..tk is yielded as the k fragments
\* t1+" ", ..., tk+" " in order, and the stream is one start, one chunk per
\* fragment with that fragment as content, in order, then one complete.
C21_OneChunkPerToken ==
    /\ SplitYieldsTokens
    /\ (streamed # <<>> /\ Last(messages).role = "assistant") =>
          Last(streamed) = Tokens(Last(messages).content)
    /\ (graph /\ ~cancelled /\ sse_pc # "start") =>
          LET sent == WordsStreamed(streamed)
              n == Len(events) - 1 - (IF sse_pc = "done" THEN 1 ELSE 0)
          IN /\ n <= Len(sent)
             /\ sse_pc = "done" => n = Len(sent)
             /\ events[1].content = <<>>
             /\ \A i \in 1..n : events[i + 1].content = sent[i] \o <<Space>>
             /\ \A i \in 1..Len(events) :
                   /\ (i = 1) = (events[i].type = "generation_start"
                                 \/ events[i].type = "edit_start"
                                 \/ events[i].type = "improve_start")
                   /\ (i = n + 2) = (events[i].type = "generation_complete"
                                     \/ events[i].type = "edit_complete"
                                     \/ events[i].type = "improve_complete")

C21_WitnessHelloWorld ==
    /\ llm
    /\ sse_pc = "done"
    /\ outcomes = <<"content">>
    /\ Last(messages).content = <<"a", Space, "b">>
    /\ Len(events) = 4
    /\ events[2].content = <<"a", Space>>
    /\ events[3].content = <<"b", Space>>

\* C22 as stated: the start, chunk and complete events of a stream are typed
\* with the request's action as prefix (generate_start and so on).
C22_TypedByAction ==
    \A i \in 1..Len(events) :
        events[i].type \in {action \o "_start", action \o "_chunk",
                            action \o "_complete", "error"}

EndpointPrefix ==
    IF action = "generate" THEN "generation"
    ELSE IF action = "edit" THEN "edit" ELSE "improve"

\* C22 amended: the start, chunk and complete events of a stream are typed
\* with the action_type of the endpoint as prefix, the same for all events of
\* the stream: "generation" for a generate request, "edit" and "improve"
\* for the other two.
C22_TypedByEndpoint ==
    \A i \in 1..Len(events) :
        events[i].type =
            IF i = 1 THEN EndpointPrefix \o "_start"
            ELSE IF i = Len(events) /\ sse_pc = "done" THEN EndpointPrefix \o "_complete"
            ELSE EndpointPrefix \o "_chunk"

C22_WitnessGeneration ==
    /\ action = "generate"
    /\ sse_pc = "done"
    /\ Len(events) = 3
    /\ events[1].type = "generation_start"
    /\ events[2].type = "generation_chunk"
    /\ events[3].type = "generation_complete"

(***************************************************************************)
(* The transcript across a run and a failing backend call (LoopSpec).      *)
(***************************************************************************)
IsPrefix(s, t) == Len(s) <= Len(t) /\ SubSeq(t, 1, Len(s)) = s

\* C26: messages is append-only: for every step of the loop the messages
\* before the step are a prefix of the messages after it.
C26_MessagesAppendOnly == [][IsPrefix(messages, messages')]_vars

\* C27: a backend call that raises in cycle k ends the run at cycle k: the
\* error entry carries no tool calls, the next node is END, and neither a
\* Tooling cycle nor another backend call follows, even below the bound.
C27_FailureEndsRun ==
    /\ [][(AfterReasoning /\ Last(outcomes') = "raise") =>
            /\ Last(messages').tool_calls = <<>>
            /\ node' = "end"]_vars
    /\ [](SomeOutcome("raise") =>
            /\ node = "end"
            /\ Last(outcomes) = "raise"
            /\ \A i \in 1..(Len(outcomes) - 1) : outcomes[i] # "raise")
    /\ [][SomeOutcome("raise") => (tool_runs' = tool_runs /\ outcomes' = outcomes)]_vars

C27_WitnessBelowBound ==
    /\ outcomes = <<"raise">>
    /\ iterations = 1
    /\ max_iterations = 3
    /\ node = "end"
    /\ tool_runs = 0

(***************************************************************************)
(* The generators and the order of a request's steps (Spec).               *)
(***************************************************************************)
\* C28: an Exception raised while the graph runs is caught inside the
\* generator and becomes exactly one more fragment, the error text, which is
\* the last one; the generator then ends normally and hands no exception to
\* create_sse_stream.
C28_GeneratorCatchesException ==
    /\ pending # Raised
    /\ gen_pc = "failed" =>
          /\ ~graph
          /\ words = <<>>
          /\ pending = Yielded(GenErrorText(action))
             \/ (pending = Nothing /\ Last(events).content = GenErrorText(action))
    /\ (~graph /\ gen_pc = "done") =>
          /\ pending = Stopped \/ sse_pc = "done"
          /\ \E i \in 1..Len(events) :
                /\ events[i].content = GenErrorText(action)
                /\ \A j \in 1..Len(events) : j # i => events[j].content = <<>>
    /\ (~graph /\ sse_pc = "done") => Len(events) = 3

C28_WitnessErrorFragment ==
    /\ ~graph
    /\ action = "edit"
    /\ gen_pc = "done"
    /\ sse_pc = "done"
    /\ events[2].content = <<"Error", Space, "editing", Space, "text">>

\* C29: the start event is emitted before the graph runs at all, so before
\* the first backend call, and a chunk is emitted only for a word of a
\* Reasoning cycle that has completed.
C29_StartBeforeLoop ==
    /\ [](sse_pc = "start" =>
            /\ events = <<>>
            /\ gen_pc = "created"
            /\ outcomes = <<>>
            /\ messages = <<>>)
    /\ [](graph => Len(events) <= 2 + Len(WordsStreamed(streamed)) - Len(words))
    /\ [][AfterReasoning =>
            /\ events # <<>>
            /\ events[1].type = EndpointPrefix \o "_start"
            /\ events' = events]_vars

C29_WitnessStartThenLoop ==
    /\ Len(events) = 1
    /\ gen_pc = "astream"
    /\ outcomes = <<>>
    /\ node = "agent"

\* C30: a request starts from messages = [], iterations = 0 and
\* max_iterations = 3, and makes at most 3 backend calls and at most 2
\* Tooling cycles whatever the backend returns.
C30_RequestBound ==
    /\ max_iterations = 3
    /\ gen_pc = "created" => (messages = <<>> /\ iterations = 0)
    /\ ReasoningCycles <= 3
    /\ iterations <= 3
    /\ tool_runs <= 2

C30_WitnessThreeCalls ==
    /\ sse_pc = "done"
    /\ ReasoningCycles = 3
    /\ tool_runs = 2
    /\ Last(outcomes) = "tool_calls"

(***************************************************************************)
(* The tools (ToolSpec).                                                   *)
(***************************************************************************)
Returned(name) == tool_call.name = name /\ tool_result # NoResult

\* The tokens extract_key_themes counts: the whitespace-separated tokens of
\* the lower-cased text, each without its non-alphanumeric characters.
CleanTokens(text) ==
    LET ws == SplitWhitespace(LowerStr(text))
    IN [i \in 1..Len(ws) |-> SelectSeq(ws[i], IsAlnum)]

Occurrences(cw, w) == Cardinality({i \in 1..Len(cw) : cw[i] = w})
FirstOccurrence(cw, w) ==
    CHOOSE i \in 1..Len(cw) : cw[i] = w /\ \A j \in 1..(i - 1) : cw[j] # w

\* u ranks above v: more frequent, or as frequent and first seen earlier.
RanksAbove(cw, u, v) ==
    \/ Occurrences(cw, u) > Occurrences(cw, v)
    \/ /\ Occurrences(cw, u) = Occurrences(cw, v)
       /\ FirstOccurrence(cw, u) < FirstOccurrence(cw, v)

\* C23: extract_key_themes returns the no-themes notice for an empty or
\* whitespace-only text; otherwise at most 5 tokens, each a lower-cased,
\* cleaned token longer than 3 characters and not a stop word, ordered by
\* descending frequency with ties in order of first occurrence, and no
\* token left out ranks above a token returned.
C23_TopThemes ==
    Returned("extract_key_themes") =>
        IF IsBlank(tool_call.text)
        THEN tool_result = [kind |-> "notice", text |-> "No themes found in empty text"]
        ELSE LET cw == CleanTokens(tool_call.text)
                 themes == { cw[i] : i \in { k \in 1..Len(cw) :
                                 Len(cw[k]) > 3 /\ cw[k] \notin common_words } }
                 r == tool_result.themes
             IN /\ tool_result.kind = "themes"
                /\ Len(r) <= 5
                /\ Len(r) = 5 \/ Len(r) = Cardinality(themes)
                /\ \A i \in 1..Len(r) : r[i] \in themes
                /\ \A i, j \in 1..Len(r) : i < j => RanksAbove(cw, r[i], r[j])
                /\ \A w \in themes :
                      (\A i \in 1..Len(r) : r[i] # w) =>
                          \A i \in 1..Len(r) : RanksAbove(cw, r[i], w)

C23_WitnessSixthWordFirst ==
    /\ Returned("extract_key_themes")
    /\ Len(SplitWhitespace(tool_call.text)) = 7
    /\ tool_result.themes = << <<"f", "e", "t", "a">>, <<"i", "o", "t", "a">>,
                               <<"b", "e", "t", "a">>, <<"z", "e", "t", "a">>,
                               <<"d", "a", "t", "a">> >>

\* The lines of a text and its blocks: a block is a maximal run of lines
\* none of which is empty; it counts when it holds a non-whitespace
\* character.
LineBreaks(t) ==
    <<0>> \o SelectSeq([i \in 1..Len(t) |-> i], LAMBDA i : t[i] = NL) \o <<Len(t) + 1>>
LineAt(t, k) == SubSeq(t, LineBreaks(t)[k] + 1, LineBreaks(t)[k + 1] - 1)
LineCount(t) == Len(LineBreaks(t)) - 1
BlockStarts(t) ==
    { k \in 1..LineCount(t) : LineAt(t, k) # <<>> /\ (k = 1 \/ LineAt(t, k - 1) = <<>>) }
BlockHasText(t, k) ==
    \E j \in k..LineCount(t) :
        /\ \A m \in k..j : LineAt(t, m) # <<>>
        /\ ~IsBlank(LineAt(t, j))
BlockCount(t) == Cardinality({ k \in BlockStarts(t) : BlockHasText(t, k) })

\* C24: analyze_text_structure returns the empty-text notice for an empty or
\* whitespace-only text; otherwise paragraph_count is the number of
\* non-empty blocks delimited by blank lines, and structure is
\* "multi-paragraph" exactly when paragraph_count > 1, else "single-block".
C24_ParagraphsAndStructure ==
    Returned("analyze_text_structure") =>
        IF IsBlank(tool_call.text)
        THEN tool_result = [kind |-> "notice", text |-> "Empty text provided"]
        ELSE /\ tool_result.kind = "analysis"
             /\ tool_result.paragraph_count = BlockCount(tool_call.text)
             /\ tool_result.paragraph_count >= 1
             /\ tool_result.structure =
                   IF tool_result.paragraph_count > 1 THEN "multi-paragraph"
                   ELSE "single-block"

C24_WitnessTwoBlocks ==
    /\ Returned("analyze_text_structure")
    /\ tool_call.text = <<"a", NL, NL, "a">>
    /\ tool_result.paragraph_count = 2
    /\ tool_result.structure = "multi-paragraph"

\* C25: suggest_improvements returns exactly 3 suggestions, fixed by the
\* focus among clarity, structure, engagement and general whatever the text;
\* any other focus gives the 3 suggestions of general; it returns for every
\* text and focus.
C25_ThreeSuggestions ==
    Returned("suggest_improvements") =>
        LET focus == IF tool_call.focus_given THEN tool_call.focus ELSE "general"
            effective == IF focus \in KnownFocus THEN focus ELSE "general"
            first == IF effective = "clarity"
                     THEN "Consider breaking long sentences into shorter ones"
                     ELSE IF effective = "structure"
                     THEN "Add clear topic sentences to paragraphs"
                     ELSE IF effective = "engagement"
                     THEN "Add compelling examples or anecdotes"
                     ELSE "Check for grammar and spelling errors"
        IN /\ tool_result.kind = "suggestions"
           /\ Len(tool_result.suggestions) = 3
           /\ tool_result.suggestions[1] = first
           /\ tool_result.suggestions = suggest_improvements(<<>>, effective).suggestions

C25_WitnessUnknownFocus ==
    /\ Returned("suggest_improvements")
    /\ tool_call.focus_given
    /\ tool_call.focus = "tone"
    /\ tool_call.text # <<>>
    /\ tool_result.suggestions[3] = "Remove unnecessary words and phrases"

(***************************************************************************)
(* C31: the loop of studio_graph.py and the loop of agent.py are           *)
(* control-flow equivalent. Run on the same initial state and the same     *)
(* outcome of the backend at each cycle (content only, tool calls, or an   *)
(* exception), the two graphs are at the same node with the same           *)
(* iterations after every step, and their entries agree in number, role    *)
(* and tool calls: only the text of the entries may differ.                *)
(***************************************************************************)
SameShape(ms, ns) ==
    /\ Len(ms) = Len(ns)
    /\ \A i \in 1..Len(ms) :
         /\ ms[i].role = ns[i].role
         /\ ms[i].tool_calls = ns[i].tool_calls

C31_StudioLoopEquivalent ==
    /\ studio.node = node
    /\ studio.iterations = iterations
    /\ SameShape(studio.messages, messages)

\* Both graphs ended after a tool round followed by a failing backend call,
\* and their last entries carry different texts.
C31_WitnessToolsThenFailure ==
    /\ node = "end"
    /\ studio.node = "end"
    /\ outcomes = <<"tool_calls", "raise">>
    /\ tool_runs = 1
    /\ iterations = 2
    /\ Last(studio.messages).content # Last(messages).content

(***************************************************************************)
(* C32: create_sse_stream emits no chunk event for an empty fragment, and  *)
(* every chunk event it emits has non-empty content. When the terminal     *)
(* assistant entry of a request has empty content (a tool-call-only entry  *)
(* produced when the bound is hit, for instance), that entry contributes   *)
(* no chunk and the stream still ends with the complete event.             *)
(***************************************************************************)
ChunksNonEmpty ==
    \A i \in 1..Len(events) : IsChunk(events[i]) => events[i].content # EmptyText

\* The step of the async for body that takes the fragment handed over.
TakesFragment ==
    /\ sse_pc = "pull"
    /\ pending.kind = "fragment"
    /\ pending' = Nothing

EmptyFragmentSkipped ==
    TakesFragment =>
        IF pending.fragment = EmptyText
        THEN events' = events
        ELSE events' = Append(events, ChunkEvent(ActionType(action), pending.fragment))

\* The request's stream has finished and the entry the run ended on is an
\* assistant entry with empty content.
EndedOnEmptyEntry ==
    /\ graph
    /\ sse_pc = "done"
    /\ node = "end"
    /\ messages # <<>>
    /\ Last(messages).role = "assistant"
    /\ Last(messages).content = EmptyText

EmptyEntryAddsNothing ==
    EndedOnEmptyEntry =>
        /\ Last(streamed) = <<>>
        /\ ChunkContents(events)
             = AllFragments(SubSeq(streamed, 1, Len(streamed) - 1))
        /\ IsComplete(Last(events))
        /\ \A i \in 1..Len(events) : ~IsError(events[i])

C32_NoChunkForEmptyFragment ==
    /\ []ChunksNonEmpty
    /\ [][EmptyFragmentSkipped]_vars
    /\ []EmptyEntryAddsNothing

\* The third reply asks for a tool again and carries no text: the bound ends
\* the run on it, and the finished stream holds the chunks of the earlier
\* replies only.
C32_WitnessBoundOnToolCallOnly ==
    /\ EndedOnEmptyEntry
    /\ outcomes = <<"tool_calls", "tool_calls", "tool_calls">>
    /\ Len(Last(messages).tool_calls) > 0
    /\ ChunkContents(events) # <<>>
    /\ IsComplete(Last(events))

\* An arbitrary generator has handed over an empty fragment between two
\* non-empty ones, and the finished stream holds two chunks.
EmptyFragmentTaken ==
    /\ gen_pc = "done"
    /\ sse_pc = "done"
    /\ ~graph
    /\ Len(events) = 4
    /\ ChunkContents(events) = << <<"a", Space>>, <<"b", Space>> >>

====
